---- MODULE Spec2Model ----
(***************************************************************************)
(* State-machine model of the marketplace backend: the product table, the  *)
(* per-user carts and the order table, with one action per HTTP handler.   *)
(* Money is counted in whole units of the smallest currency amount.  The   *)
(* HTTP status a handler answers with is the value of its ...Response      *)
(* operator in the state the request meets; a refused request writes       *)
(* nothing.                                                                *)
(*                                                                         *)
(* SpecShop runs the catalogue and cart handlers from the empty database.  *)
(* Spec runs the order handlers and the seller's stock updates from every  *)
(* catalogue and cart state within the bounds (the states SpecShop         *)
(* reaches, taken with active products of the users in Sellers).           *)
(* SpecConc interleaves the database accesses of concurrent placements.    *)
(***************************************************************************)
EXTENDS Integers, Sequences, FiniteSets, TLC

\* ------------------------------------------------------------------ bounds
NumUsers == 2
MaxProducts == 2
MaxPrice == 2
MaxStock == 2
MaxQty == 2
MaxCartQty == 2
MaxOrders == 1

\* ------------------------------------------------------- program constants
HTTP_200_OK == 200
HTTP_201_CREATED == 201
HTTP_204_NO_CONTENT == 204
HTTP_400_BAD_REQUEST == 400
HTTP_403_FORBIDDEN == 403
HTTP_404_NOT_FOUND == 404
HTTP_500_SERVER_ERROR == 500

STATUS_CHOICES == {"pending", "processing", "shipped", "delivered", "cancelled"}
PAYMENT_METHOD_CHOICES == {"credit_card", "debit_card", "paypal", "cash_on_delivery"}

Users == 1..NumUsers
\* users whose is_staff flag is set
Staff == {2}
\* users who create products
Sellers == {1}

\* request inputs
PriceInputs == 0..MaxPrice
StockInputs == (0 - 1)..MaxStock
QtyInputs == 0..MaxQty
StatusInputs == STATUS_CHOICES \cup {"refunded"}
\* a payment_method the request body does not carry
Omitted == "<omitted>"
PaymentInputs == {"paypal", "bitcoin", Omitted}

VARIABLES
    products,   \* Product table: sequence (index = id) of rows
    hasCart,    \* hasCart[u]: a Cart row exists for user u
    cart,       \* cart[u]: the CartItem rows of u's cart, newest first
    orders,     \* Order table: sequence (index = id) of rows with their items
    placed,     \* history: the last placement, the stock it found, and whether
                \* cancel has since restored it; reset when stock is written otherwise
    proc        \* proc[u]: position and locals of u's in-flight placement

vars == <<products, hasCart, cart, orders, placed, proc>>

ProductIds == 1..Len(products)
OrderIds == 1..Len(orders)

NoPlacement == [order |-> 0, stock |-> <<>>, cancelled |-> FALSE]
NoRow == [price |-> 0, stock |-> 0, is_active |-> FALSE, seller |-> 0]
Idle == [pc |-> "idle", payment_method |-> "", order |-> 0, items |-> <<>>, row |-> NoRow]

StockOf(prods) == [p \in 1..Len(prods) |-> prods[p].stock]

InitEmpty ==
    /\ products = <<>>
    /\ hasCart = [u \in Users |-> FALSE]
    /\ cart = [u \in Users |-> <<>>]
    /\ orders = <<>>
    /\ placed = NoPlacement
    /\ proc = [u \in Users |-> Idle]

\* the Product tables of n rows that validate_price and validate_stock admit
ProductTables(n, sellers, flags) ==
    [1..n -> [price : 1..MaxPrice, stock : 0..MaxStock, is_active : flags, seller : sellers]]

\* the carts over n products: at most one row per product (unique_together),
\* every quantity at least 1
CartsOver(n) ==
    {items \in UNION {[1..k -> [product : 1..n, quantity : 1..MaxCartQty]] : k \in 0..n} :
        \A i, j \in 1..Len(items) : i # j => items[i].product # items[j].product}

\* the catalogue and the carts are in a state the shop handlers produce
ShopStateOK ==
    /\ Len(products) <= MaxProducts
    /\ products \in ProductTables(Len(products), Users, BOOLEAN)
    /\ cart \in [Users -> CartsOver(Len(products))]
    /\ hasCart \in [Users -> BOOLEAN]
    /\ \A u \in Users : cart[u] # <<>> => hasCart[u]
    /\ orders = <<>>

Init ==
    /\ products \in UNION {ProductTables(n, Sellers, {TRUE}) : n \in 0..MaxProducts}
    /\ cart \in [Users -> CartsOver(Len(products))]
    /\ hasCart \in [Users -> BOOLEAN]
    /\ \A u \in Users : cart[u] # <<>> => hasCart[u]
    /\ orders = <<>>
    /\ placed = NoPlacement
    /\ proc = [u \in Users |-> Idle]

\* ---------------------------------------------------------------- products
validate_price(value) == value > 0
validate_stock(value) == value >= 0

ProductCreateResponse(price, stock) ==
    IF validate_price(price) /\ validate_stock(stock)
    THEN HTTP_201_CREATED ELSE HTTP_400_BAD_REQUEST

\* POST /api/products/
ProductCreate(u, price, stock) ==
    /\ Len(products) < MaxProducts
    /\ IF ProductCreateResponse(price, stock) = HTTP_201_CREATED
       THEN /\ products' = Append(products,
                   [price |-> price, stock |-> stock, is_active |-> TRUE, seller |-> u])
            /\ UNCHANGED <<hasCart, cart, orders, placed, proc>>
       ELSE UNCHANGED vars

has_object_permission(u, p) == products[p].seller = u

ProductUpdateResponse(u, p, field, value) ==
    IF p \notin ProductIds \/ ~products[p].is_active THEN HTTP_404_NOT_FOUND
    ELSE IF ~has_object_permission(u, p) THEN HTTP_403_FORBIDDEN
    ELSE IF field = "price" /\ ~validate_price(value) THEN HTTP_400_BAD_REQUEST
    ELSE IF field = "stock" /\ ~validate_stock(value) THEN HTTP_400_BAD_REQUEST
    ELSE HTTP_200_OK

\* PATCH /api/products/{slug}/ with one of the fields price, stock
ProductUpdate(u, p, field, value) ==
    IF ProductUpdateResponse(u, p, field, value) = HTTP_200_OK
    THEN /\ products' = IF field = "price"
                        THEN [products EXCEPT ![p].price = value]
                        ELSE [products EXCEPT ![p].stock = value]
         /\ placed' = IF field = "stock" THEN NoPlacement ELSE placed
         /\ UNCHANGED <<hasCart, cart, orders, proc>>
    ELSE UNCHANGED vars

ProductDestroyResponse(u, p) ==
    IF p \notin ProductIds \/ ~products[p].is_active THEN HTTP_404_NOT_FOUND
    ELSE IF ~has_object_permission(u, p) THEN HTTP_403_FORBIDDEN
    ELSE HTTP_204_NO_CONTENT

\* DELETE /api/products/{slug}/ : soft delete
ProductDestroy(u, p) ==
    IF ProductDestroyResponse(u, p) = HTTP_204_NO_CONTENT
    THEN /\ products' = [products EXCEPT ![p].is_active = FALSE]
         /\ UNCHANGED <<hasCart, cart, orders, placed, proc>>
    ELSE UNCHANGED vars

\* -------------------------------------------------------------------- cart
\* CartItem.objects.get(cart=cart, product=p): the row's position, 0 if none
FindItem(items, p) ==
    IF \E i \in 1..Len(items) : items[i].product = p
    THEN CHOOSE i \in 1..Len(items) : items[i].product = p
    ELSE 0

\* cart_item.quantity += quantity
AddQuantity(old, quantity) == old + quantity

\* an add that inserts a row whether or not the product is in the cart
AddItemAlwaysNew(items, p, quantity) ==
    <<[product |-> p, quantity |-> quantity]>> \o items

\* CartItem.objects.get_or_create(...), then the update of an existing row
AddItem(items, p, quantity) ==
    LET i == FindItem(items, p) IN
    IF i = 0
    THEN <<[product |-> p, quantity |-> quantity]>> \o items
    ELSE [items EXCEPT ![i].quantity = AddQuantity(items[i].quantity, quantity)]

\* the quantity of product p in `items` after AddItem stays within the bound
WithinCartBound(items, p, quantity) ==
    FindItem(items, p) # 0 =>
        AddQuantity(items[FindItem(items, p)].quantity, quantity) <= MaxCartQty

validate_quantity(value) == value >= 1

\* a validate that leaves out the comparison with the stock
CartItemValidateNoStock(p, quantity) ==
    IF p \notin ProductIds THEN "not_found"
    ELSE IF ~products[p].is_active THEN "inactive"
    ELSE "ok"

\* CartItemSerializer.validate: "ok" or the reason of the ValidationError
CartItemValidate(p, quantity) ==
    IF p \notin ProductIds THEN "not_found"
    ELSE IF products[p].stock < quantity THEN "stock"
    ELSE IF ~products[p].is_active THEN "inactive"
    ELSE "ok"

\* GET /api/cart/
CartList(u) ==
    /\ hasCart' = [hasCart EXCEPT ![u] = TRUE]
    /\ UNCHANGED <<products, cart, orders, placed, proc>>

CartCreateResponse(p, quantity) ==
    IF validate_quantity(quantity) /\ CartItemValidate(p, quantity) = "ok"
    THEN HTTP_201_CREATED ELSE HTTP_400_BAD_REQUEST

\* POST /api/cart/ with body {"product_id": p, "quantity": quantity}
CartCreate(u, p, quantity) ==
    IF CartCreateResponse(p, quantity) = HTTP_201_CREATED
    THEN /\ WithinCartBound(cart[u], p, quantity)
         /\ hasCart' = [hasCart EXCEPT ![u] = TRUE]
         /\ cart' = [cart EXCEPT ![u] = AddItem(cart[u], p, quantity)]
         /\ UNCHANGED <<products, orders, placed, proc>>
    ELSE UNCHANGED vars

CartCreateNoQuantityResponse(p) ==
    IF CartItemValidate(p, 1) = "ok" THEN HTTP_500_SERVER_ERROR ELSE HTTP_400_BAD_REQUEST

\* POST /api/cart/ with body {"product_id": p}: the serializer accepts the
\* missing quantity, the view creates the cart and then fails on
\* validated_data["quantity"]
CartCreateNoQuantity(u, p) ==
    IF CartCreateNoQuantityResponse(p) = HTTP_500_SERVER_ERROR
    THEN /\ hasCart' = [hasCart EXCEPT ![u] = TRUE]
         /\ UNCHANGED <<products, cart, orders, placed, proc>>
    ELSE UNCHANGED vars

AddToCartResponse(p, quantity) ==
    IF p \notin ProductIds \/ ~products[p].is_active THEN HTTP_404_NOT_FOUND
    ELSE IF quantity < 1 THEN HTTP_400_BAD_REQUEST
    ELSE IF products[p].stock < quantity THEN HTTP_400_BAD_REQUEST
    ELSE HTTP_200_OK

\* POST /api/products/{slug}/add_to_cart/ with body {"quantity": quantity}
AddToCart(u, p, quantity) ==
    IF AddToCartResponse(p, quantity) = HTTP_200_OK
    THEN /\ WithinCartBound(cart[u], p, quantity)
         /\ hasCart' = [hasCart EXCEPT ![u] = TRUE]
         /\ cart' = [cart EXCEPT ![u] = AddItem(cart[u], p, quantity)]
         /\ UNCHANGED <<products, orders, placed, proc>>
    ELSE UNCHANGED vars

CartClearResponse(u) ==
    IF ~hasCart[u] THEN HTTP_500_SERVER_ERROR ELSE HTTP_204_NO_CONTENT

\* DELETE /api/cart/clear/
CartClear(u) ==
    IF CartClearResponse(u) = HTTP_204_NO_CONTENT
    THEN /\ cart' = [cart EXCEPT ![u] = <<>>]
         /\ UNCHANGED <<products, hasCart, orders, placed, proc>>
    ELSE UNCHANGED vars

\* item_id is given as the row's position in the user's cart
UpdateItemResponse(u, i, quantity) ==
    IF ~hasCart[u] \/ i \notin 1..Len(cart[u]) THEN HTTP_404_NOT_FOUND
    ELSE IF quantity = 0 \/ quantity < 1 THEN HTTP_400_BAD_REQUEST
    ELSE IF products[cart[u][i].product].stock < quantity THEN HTTP_400_BAD_REQUEST
    ELSE HTTP_200_OK

\* PATCH /api/cart/items/{item_id}/ with body {"quantity": quantity}
UpdateItem(u, i, quantity) ==
    IF UpdateItemResponse(u, i, quantity) = HTTP_200_OK
    THEN /\ cart' = [cart EXCEPT ![u][i].quantity = quantity]
         /\ UNCHANGED <<products, hasCart, orders, placed, proc>>
    ELSE UNCHANGED vars

RemoveAt(items, i) == SubSeq(items, 1, i - 1) \o SubSeq(items, i + 1, Len(items))

RemoveItemResponse(u, i) ==
    IF ~hasCart[u] \/ i \notin 1..Len(cart[u]) THEN HTTP_404_NOT_FOUND
    ELSE HTTP_204_NO_CONTENT

\* DELETE /api/cart/items/{item_id}/
RemoveItem(u, i) ==
    IF RemoveItemResponse(u, i) = HTTP_204_NO_CONTENT
    THEN /\ cart' = [cart EXCEPT ![u] = RemoveAt(cart[u], i)]
         /\ UNCHANGED <<products, hasCart, orders, placed, proc>>
    ELSE UNCHANGED vars

\* ------------------------------------------------------------------ orders
\* a subtotal that adds where the code multiplies
CartItemSubtotalAdded(quantity, price) == quantity + price

\* CartItem.subtotal
CartItemSubtotal(quantity, price) == quantity * price

\* Cart.total_price over the rows `items`, read against the table `prods`
RECURSIVE CartTotalPrice(_, _)
CartTotalPrice(items, prods) ==
    IF items = <<>> THEN 0
    ELSE CartItemSubtotal(Head(items).quantity, prods[Head(items).product].price)
         + CartTotalPrice(Tail(items), prods)

\* OrderItem.save: a falsy price is replaced by the product's price
OrderItemSavePrice(price, productPrice) == IF price = 0 THEN productPrice ELSE price

\* an order item that drops the cart item's quantity for the field's default
NewOrderItemDefaultQuantity(p, quantity, row) ==
    [product |-> p, quantity |-> 1, price |-> OrderItemSavePrice(row.price, row.price)]

\* OrderItem.objects.create(order, product, quantity, price=product.price)
NewOrderItem(p, quantity, row) ==
    [product |-> p, quantity |-> quantity, price |-> OrderItemSavePrice(row.price, row.price)]

\* a reduction by one unit whatever the quantity
ReduceStockByOne(stock, quantity) == stock - 1

\* product.stock -= cart_item.quantity
ReduceStock(stock, quantity) == stock - quantity

\* a restoration of one unit whatever the quantity
RestoreStockByOne(stock, quantity) == stock + 1

\* product.stock += item.quantity
RestoreStock(stock, quantity) == stock + quantity

validate_payment_method(value) == value \in PAYMENT_METHOD_CHOICES

\* OrderCreateSerializer.is_valid: a payment_method left out is not validated
OrderCreateIsValid(pm) == pm = Omitted \/ validate_payment_method(pm)

\* the payment_method stored for a valid request
StoredPaymentMethod(pm) == IF pm = Omitted THEN "" ELSE pm

\* Order.objects.create(user, total_price, **validated_data)
NewOrder(u, total, pm) ==
    [live |-> TRUE, user |-> u, total_price |-> total, status |-> "pending",
     payment_method |-> StoredPaymentMethod(pm), items |-> <<>>]

\* the loop of OrderCreateSerializer.create over the cart rows `items`:
\* the product table and the order's items after it
RECURSIVE PlaceItems(_, _, _)
PlaceItems(items, prods, oitems) ==
    IF items = <<>> THEN [products |-> prods, items |-> oitems]
    ELSE LET ci == Head(items)
             row == prods[ci.product]
         IN PlaceItems(Tail(items),
                [prods EXCEPT ![ci.product].stock = ReduceStock(row.stock, ci.quantity)],
                Append(oitems, NewOrderItem(ci.product, ci.quantity, row)))

\* a delete that removes the newest row only
ClearedCartFirstOnly(items) == IF items = <<>> THEN <<>> ELSE Tail(items)

\* cart.items.all().delete()
ClearedCart(items) == <<>>

PlaceOrderResponse(u, pm) ==
    IF ~OrderCreateIsValid(pm) THEN HTTP_400_BAD_REQUEST
    ELSE IF ~hasCart[u] THEN HTTP_500_SERVER_ERROR
    ELSE IF cart[u] = <<>> THEN HTTP_400_BAD_REQUEST
    ELSE HTTP_201_CREATED

\* POST /api/orders/, handled with no other request in between
PlaceOrder(u, pm) ==
    /\ Len(orders) < MaxOrders
    /\ IF PlaceOrderResponse(u, pm) = HTTP_201_CREATED
       THEN LET total == CartTotalPrice(cart[u], products)
                done == PlaceItems(cart[u], products, <<>>)
            IN /\ orders' = Append(orders, [NewOrder(u, total, pm) EXCEPT !.items = done.items])
               /\ products' = done.products
               /\ cart' = [cart EXCEPT ![u] = ClearedCart(cart[u])]
               /\ placed' = [order |-> Len(orders) + 1, stock |-> StockOf(products), cancelled |-> FALSE]
               /\ UNCHANGED <<hasCart, proc>>
       ELSE UNCHANGED vars

\* a queryset that does not filter by user
VisibleToAll(u, o) == o \in OrderIds /\ orders[o].live

\* OrderViewSet.get_queryset: the orders user u may address
Visible(u, o) == o \in OrderIds /\ orders[o].live /\ (u \in Staff \/ orders[o].user = u)

\* GET /api/orders/{id}/ : the retrieve the ModelViewSet provides
OrderRetrieveResponse(u, o) ==
    IF ~Visible(u, o) THEN HTTP_404_NOT_FOUND ELSE HTTP_200_OK

\* the loop of cancel over the order's items
RECURSIVE RestoreItems(_, _)
RestoreItems(oitems, prods) ==
    IF oitems = <<>> THEN prods
    ELSE LET it == Head(oitems) IN
         RestoreItems(Tail(oitems),
             [prods EXCEPT ![it.product].stock = RestoreStock(prods[it.product].stock, it.quantity)])

\* a check that forgets shipped orders
CancelRefusedDeliveredOnly(status) == status = "delivered"

\* the check that opens cancel
CancelRefused(status) == status \in {"shipped", "delivered"}

CancelOrderResponse(u, o) ==
    IF ~Visible(u, o) THEN HTTP_404_NOT_FOUND
    ELSE IF CancelRefused(orders[o].status) THEN HTTP_400_BAD_REQUEST
    ELSE HTTP_200_OK

\* POST /api/orders/{id}/cancel/
CancelOrder(u, o) ==
    IF CancelOrderResponse(u, o) = HTTP_200_OK
    THEN /\ \A p \in ProductIds : RestoreItems(orders[o].items, products)[p].stock <= MaxStock
         /\ products' = RestoreItems(orders[o].items, products)
         /\ orders' = [orders EXCEPT ![o].status = "cancelled"]
         /\ placed' = IF placed.order = o /\ ~placed.cancelled
                      THEN [placed EXCEPT !.cancelled = TRUE] ELSE NoPlacement
         /\ UNCHANGED <<hasCart, cart, proc>>
    ELSE UNCHANGED vars

UpdateStatusResponse(u, o, new_status) ==
    IF ~Visible(u, o) THEN HTTP_404_NOT_FOUND
    ELSE IF new_status \notin STATUS_CHOICES THEN HTTP_400_BAD_REQUEST
    ELSE HTTP_200_OK

\* the status update_status stores for a valid request
UpdatedStatus(old, new_status) == new_status

\* PATCH /api/orders/{id}/update_status/ with body {"status": new_status}
UpdateStatus(u, o, new_status) ==
    IF UpdateStatusResponse(u, o, new_status) = HTTP_200_OK
    THEN /\ orders' = [orders EXCEPT ![o].status = UpdatedStatus(orders[o].status, new_status)]
         /\ UNCHANGED <<products, hasCart, cart, placed, proc>>
    ELSE UNCHANGED vars

OrderUpdateResponse(u, o, new_status) ==
    IF ~Visible(u, o) THEN HTTP_404_NOT_FOUND
    ELSE IF new_status \notin STATUS_CHOICES THEN HTTP_400_BAD_REQUEST
    ELSE HTTP_200_OK

\* PATCH /api/orders/{id}/ with body {"status": new_status}: the update the
\* ModelViewSet provides, through OrderSerializer (status is writable)
OrderUpdate(u, o, new_status) ==
    IF OrderUpdateResponse(u, o, new_status) = HTTP_200_OK
    THEN /\ orders' = [orders EXCEPT ![o].status = new_status]
         /\ UNCHANGED <<products, hasCart, cart, placed, proc>>
    ELSE UNCHANGED vars

\* the row that stands for a deleted order
DeletedOrder ==
    [live |-> FALSE, user |-> 0, total_price |-> 0, status |-> "",
     payment_method |-> "", items |-> <<>>]

OrderDestroyResponse(u, o) ==
    IF ~Visible(u, o) THEN HTTP_404_NOT_FOUND ELSE HTTP_204_NO_CONTENT

\* DELETE /api/orders/{id}/ : the destroy the ModelViewSet provides; the
\* order's items go with it (on_delete=CASCADE)
OrderDestroy(u, o) ==
    IF OrderDestroyResponse(u, o) = HTTP_204_NO_CONTENT
    THEN /\ orders' = [orders EXCEPT ![o] = DeletedOrder]
         /\ placed' = IF placed.order = o THEN NoPlacement ELSE placed
         /\ UNCHANGED <<products, hasCart, cart, proc>>
    ELSE UNCHANGED vars

\* ------------------------------------- catalogue and cart requests in turn
NextShop ==
    \/ \E u \in Users, price \in PriceInputs, stock \in StockInputs : ProductCreate(u, price, stock)
    \/ \E u \in Users, p \in 1..MaxProducts, value \in PriceInputs : ProductUpdate(u, p, "price", value)
    \/ \E u \in Users, p \in 1..MaxProducts, value \in StockInputs : ProductUpdate(u, p, "stock", value)
    \/ \E u \in Users, p \in 1..MaxProducts : ProductDestroy(u, p)
    \/ \E u \in Users : CartList(u)
    \/ \E u \in Users, p \in 1..(MaxProducts + 1), q \in QtyInputs : CartCreate(u, p, q)
    \/ \E u \in Users, p \in 1..(MaxProducts + 1) : CartCreateNoQuantity(u, p)
    \/ \E u \in Users, p \in 1..MaxProducts, q \in QtyInputs : AddToCart(u, p, q)
    \/ \E u \in Users : CartClear(u)
    \/ \E u \in Users, i \in 1..MaxProducts, q \in QtyInputs : UpdateItem(u, i, q)
    \/ \E u \in Users, i \in 1..MaxProducts : RemoveItem(u, i)

SpecShop == InitEmpty /\ [][NextShop]_vars

\* ---------------------------------------------- order requests in turn
Next ==
    \/ \E u \in Users, p \in 1..MaxProducts, value \in StockInputs : ProductUpdate(u, p, "stock", value)
    \/ \E u \in Users, pm \in PaymentInputs : PlaceOrder(u, pm)
    \/ \E u \in Users, o \in 1..MaxOrders : CancelOrder(u, o)
    \/ \E u \in Users, o \in 1..MaxOrders, s \in StatusInputs : UpdateStatus(u, o, s)
    \/ \E u \in Users, o \in 1..MaxOrders, s \in StatusInputs : OrderUpdate(u, o, s)
    \/ \E u \in Users, o \in 1..MaxOrders : OrderDestroy(u, o)

Spec == Init /\ [][Next]_vars

\* --------------------------- order requests and price changes in turn
\* a total_price the serializer would take from the request body
WrittenTotalPriceFromBody(old, total) == total

\* read_only_fields: the total_price of the request body is dropped
WrittenTotalPrice(old, total) == old

\* PATCH /api/orders/{id}/ with body {"total_price": total}
OrderUpdateTotal(u, o, total) ==
    /\ Visible(u, o)
    /\ orders' = [orders EXCEPT ![o].total_price = WrittenTotalPrice(@, total)]
    /\ UNCHANGED <<products, hasCart, cart, placed, proc>>

NextPriced ==
    \/ \E u \in Users, pm \in PaymentInputs : PlaceOrder(u, pm)
    \/ \E u \in Users, o \in 1..MaxOrders : CancelOrder(u, o)
    \/ \E u \in Users, o \in 1..MaxOrders, s \in StatusInputs : UpdateStatus(u, o, s)
    \/ \E u \in Users, o \in 1..MaxOrders, s \in StatusInputs : OrderUpdate(u, o, s)
    \/ \E u \in Users, o \in 1..MaxOrders : OrderDestroy(u, o)
    \/ \E u \in Users, p \in 1..MaxProducts, value \in PriceInputs : ProductUpdate(u, p, "price", value)
    \/ \E u \in Users, o \in 1..MaxOrders, total \in PriceInputs : OrderUpdateTotal(u, o, total)

\* every user has opened the cart page before (GET /api/cart/)
InitPriced == Init /\ \A u \in Users : hasCart[u]

SpecPriced == InitPriced /\ [][NextPriced]_vars

\* ------------------------- cart and order requests with no stock edit
\* every product was created with MaxStock units and no seller has edited it
InitStocked == Init /\ \A p \in ProductIds : products[p].stock = MaxStock

NextSales ==
    \/ \E u \in Users : CartList(u)
    \/ \E u \in Users, p \in 1..MaxProducts, q \in QtyInputs : CartCreate(u, p, q)
    \/ \E u \in Users, p \in 1..MaxProducts, q \in QtyInputs : AddToCart(u, p, q)
    \/ \E u \in Users : CartClear(u)
    \/ \E u \in Users, i \in 1..MaxProducts, q \in QtyInputs : UpdateItem(u, i, q)
    \/ \E u \in Users, i \in 1..MaxProducts : RemoveItem(u, i)
    \/ \E u \in Users, pm \in PaymentInputs : PlaceOrder(u, pm)
    \/ \E u \in Users, o \in 1..MaxOrders : CancelOrder(u, o)
    \/ \E u \in Users, o \in 1..MaxOrders, s \in StatusInputs : UpdateStatus(u, o, s)

SpecSales == InitStocked /\ [][NextSales]_vars

\* ------------------------------------------------- placements interleaved
\* POST /api/orders/ taken one database access at a time.  proc[u].pc is the
\* place the request of user u has reached; a refused request leaves no
\* trace.  Each user sends one placement.

\* is_valid, then Cart.objects.get(user=user) and cart.items.exists()
PlaceBegin(u, pm) ==
    /\ proc[u].pc = "idle"
    /\ IF PlaceOrderResponse(u, pm) = HTTP_201_CREATED
       THEN /\ proc' = [proc EXCEPT ![u].pc = "total", ![u].payment_method = pm]
            /\ UNCHANGED <<products, hasCart, cart, orders, placed>>
       ELSE UNCHANGED vars

\* total = cart.total_price, then Order.objects.create(...)
PlaceCreateOrder(u) ==
    /\ proc[u].pc = "total"
    /\ orders' = Append(orders,
           NewOrder(u, CartTotalPrice(cart[u], products), proc[u].payment_method))
    /\ proc' = [proc EXCEPT ![u].pc = "items", ![u].order = Len(orders) + 1]
    /\ UNCHANGED <<products, hasCart, cart, placed>>

\* the loop's queryset cart.items.all() is read
PlaceFetchItems(u) ==
    /\ proc[u].pc = "items"
    /\ proc' = [proc EXCEPT ![u].items = cart[u],
                            ![u].pc = IF cart[u] = <<>> THEN "clear" ELSE "read"]
    /\ UNCHANGED <<products, hasCart, cart, orders, placed>>

\* cart_item.product is read and the OrderItem row is inserted
PlaceCreateItem(u) ==
    /\ proc[u].pc = "read"
    /\ LET ci == Head(proc[u].items)
           row == products[ci.product]
       IN /\ orders' = [orders EXCEPT ![proc[u].order].items =
                            Append(@, NewOrderItem(ci.product, ci.quantity, row))]
          /\ proc' = [proc EXCEPT ![u].row = row, ![u].pc = "write"]
    /\ UNCHANGED <<products, hasCart, cart, placed>>

\* product.stock -= cart_item.quantity; product.save() writes the row as read
PlaceSaveProduct(u) ==
    /\ proc[u].pc = "write"
    /\ LET ci == Head(proc[u].items)
           rest == Tail(proc[u].items)
       IN /\ products' = [products EXCEPT ![ci.product] =
                  [proc[u].row EXCEPT !.stock = ReduceStock(proc[u].row.stock, ci.quantity)]]
          /\ proc' = [proc EXCEPT ![u].items = rest, ![u].row = NoRow,
                                  ![u].pc = IF rest = <<>> THEN "clear" ELSE "read"]
    /\ UNCHANGED <<hasCart, cart, orders, placed>>

\* cart.items.all().delete(), and the response
PlaceClearCart(u) ==
    /\ proc[u].pc = "clear"
    /\ cart' = [cart EXCEPT ![u] = ClearedCart(cart[u])]
    /\ proc' = [proc EXCEPT ![u].pc = "done"]
    /\ UNCHANGED <<products, hasCart, orders, placed>>

\* every user holds a cart with items; placed.stock keeps the stock the
\* placements start from
InitConc ==
    /\ products \in UNION {ProductTables(n, Sellers, {TRUE}) : n \in 1..MaxProducts}
    /\ cart \in [Users -> CartsOver(Len(products)) \ {<<>>}]
    /\ hasCart = [u \in Users |-> TRUE]
    /\ orders = <<>>
    /\ placed = [order |-> 0, stock |-> StockOf(products), cancelled |-> FALSE]
    /\ proc = [u \in Users |-> Idle]

NextConc ==
    \/ \E u \in Users, pm \in PaymentInputs : PlaceBegin(u, pm)
    \/ \E u \in Users : PlaceCreateOrder(u)
    \/ \E u \in Users : PlaceFetchItems(u)
    \/ \E u \in Users : PlaceCreateItem(u)
    \/ \E u \in Users : PlaceSaveProduct(u)
    \/ \E u \in Users : PlaceClearCart(u)

SpecConc == InitConc /\ [][NextConc]_vars

\* ------------------------- a placement interleaved with other requests
\* the users who place orders and do not sell
Buyers == Users \ Sellers

\* the database accesses of a buyer's placement, with the buyer's own cart
\* adds and the seller's price changes handled in between
NextMixed ==
    \/ \E u \in Buyers, pm \in PaymentInputs : PlaceBegin(u, pm)
    \/ \E u \in Buyers : PlaceCreateOrder(u)
    \/ \E u \in Buyers : PlaceFetchItems(u)
    \/ \E u \in Buyers : PlaceCreateItem(u)
    \/ \E u \in Buyers : PlaceSaveProduct(u)
    \/ \E u \in Buyers : PlaceClearCart(u)
    \/ \E u \in Buyers, p \in 1..MaxProducts, q \in QtyInputs : CartCreate(u, p, q)
    \/ \E u \in Users, p \in 1..MaxProducts, value \in PriceInputs : ProductUpdate(u, p, "price", value)

SpecMixed == InitConc /\ [][NextMixed]_vars

\* ------------------------------------------------------------- properties
RECURSIVE SeqSum(_)
SeqSum(s) == IF s = <<>> THEN 0 ELSE Head(s) + SeqSum(Tail(s))

\* the quantity of product p among the rows `items`
QuantityOf(items, p) ==
    SeqSum([i \in 1..Len(items) |-> IF items[i].product = p THEN items[i].quantity ELSE 0])

\* this step creates an order for user u
Placing(u) == Len(orders') = Len(orders) + 1 /\ orders'[Len(orders')].user = u

\* C1: an order placed in one piece from a non-empty cart has total_price
\* equal to the sum, over the cart's items at that time, of quantity times
\* the product's price at that time.
C1_TotalIsSumOfSubtotals ==
    [][\A u \in Users : Placing(u) =>
          /\ cart[u] # <<>>
          /\ orders'[Len(orders')].total_price =
                 SeqSum([i \in 1..Len(cart[u]) |->
                            cart[u][i].quantity * products[cart[u][i].product].price])]_vars

\* an order of two items, two units at price 2 and one unit at price 1
C1_Witness ==
    \E o \in OrderIds :
        /\ orders[o].live /\ Len(orders[o].items) = 2 /\ orders[o].total_price = 5
        /\ \E i, j \in 1..2 :
              /\ orders[o].items[i].quantity = 2 /\ orders[o].items[i].price = 2
              /\ orders[o].items[j].quantity = 1 /\ orders[o].items[j].price = 1

\* C2: placement creates exactly one order item per item of the placing
\* user's cart, with the cart item's product and quantity and the product's
\* price at that time, and no other order item.
C2_OneOrderItemPerCartItem ==
    [][\A u \in Users : Placing(u) =>
          LET created == orders'[Len(orders')].items IN
          /\ Len(created) = Len(cart[u])
          /\ \A i \in 1..Len(cart[u]) :
                /\ created[i].product = cart[u][i].product
                /\ created[i].quantity = cart[u][i].quantity
                /\ created[i].price = products[cart[u][i].product].price
          /\ \A o \in OrderIds : orders'[o] = orders[o]]_vars

\* an order with an item of two units for one product and an item for another
C2_Witness ==
    \E o \in OrderIds :
        /\ orders[o].live /\ Len(orders[o].items) = 2
        /\ orders[o].items[1].product # orders[o].items[2].product
        /\ orders[o].items[1].quantity = 2
        /\ orders[o].status = "pending" /\ cart[orders[o].user] = <<>>

\* C3: a placement lowers the stock of every product by the quantity of that
\* product in the cart, which is 0 for a product that is not in the cart.
C3_StockReducedByOrderedQuantity ==
    [][\A u \in Users : Placing(u) =>
          /\ Len(products') = Len(products)
          /\ \A p \in ProductIds :
                products'[p].stock = products[p].stock - QuantityOf(cart[u], p)]_vars

\* an order for two units of one product only, the other product's stock
\* still what the last placement found
C3_Witness ==
    /\ placed.order \in OrderIds /\ ~placed.cancelled /\ Len(products) = 2
    /\ LET o == placed.order IN
       /\ orders[o].live /\ Len(orders[o].items) = 1
       /\ orders[o].items[1].quantity = 2
       /\ \E p \in ProductIds :
             /\ p # orders[o].items[1].product
             /\ products[p].stock = placed.stock[p] /\ products[p].stock > 0
       /\ products[orders[o].items[1].product].stock =
              placed.stock[orders[o].items[1].product] - 2

\* C4: a placement leaves the placing user's cart without items and every
\* other user's cart as it was.
C4_CartEmptiedOthersUntouched ==
    [][\A u \in Users : Placing(u) =>
          /\ cart'[u] = <<>>
          /\ \A v \in Users \ {u} : cart'[v] = cart[v]
          /\ hasCart' = hasCart]_vars

\* a user's order of two items is placed, that user's cart is empty and
\* another user's cart still holds items
C4_Witness ==
    \E o \in OrderIds :
        /\ orders[o].live /\ Len(orders[o].items) = 2
        /\ cart[orders[o].user] = <<>>
        /\ \E v \in Users \ {orders[o].user} : Len(cart[v]) = 2

\* C5: the stock of every product is at least 0 in every reachable state.
C5_StockNeverNegative == \A p \in ProductIds : products[p].stock >= 0

\* C6: a placement is refused, and creates no order, when an item of the
\* cart has a quantity above its product's stock.
C6_PlacementValidatesStock ==
    [][\A u \in Users : Placing(u) =>
          \A i \in 1..Len(cart[u]) :
              cart[u][i].quantity <= products[cart[u][i].product].stock]_vars

\* order o holds an item of one unit of product p
HasUnitOf(o, p) ==
    \E i \in 1..Len(orders[o].items) :
        orders[o].items[i].product = p /\ orders[o].items[i].quantity = 1

\* C7: of the placements that run concurrently for one unit each of a product
\* whose stock is 1, at most one creates its order, and the stock stays at
\* least 0.
C7_LastUnitSoldOnce ==
    \A p \in ProductIds :
        placed.stock[p] = 1 =>
            /\ ~ \E o1, o2 \in OrderIds : o1 # o2 /\ HasUnitOf(o1, p) /\ HasUnitOf(o2, p)
            /\ (\A o \in OrderIds : \A i \in 1..Len(orders[o].items) :
                    orders[o].items[i].product = p => orders[o].items[i].quantity = 1)
               => products[p].stock >= 0

\* C8: cancelling a pending order, with no write to stock since it was
\* placed, puts every product's stock back to what the placement found and
\* leaves the order cancelled.
C8_CancelRestoresStock ==
    [][\A u \in Users, o \in OrderIds :
          (/\ placed.order = o /\ ~placed.cancelled
           /\ orders[o].live /\ orders[o].status = "pending"
           /\ CancelOrderResponse(u, o) = HTTP_200_OK
           /\ CancelOrder(u, o))
          => /\ StockOf(products') = placed.stock
             /\ orders'[o].status = "cancelled"]_vars

\* an order of two units was placed and then cancelled: the stock is back
C8_Witness ==
    /\ placed.order \in OrderIds /\ placed.cancelled
    /\ orders[placed.order].status = "cancelled"
    /\ \E i \in 1..Len(orders[placed.order].items) :
          orders[placed.order].items[i].quantity = 2
    /\ StockOf(products) = placed.stock

\* C9: cancel on an order that is shipped or delivered is answered with 400
\* and changes neither the orders nor the products.
C9_CancelShippedRefused ==
    [][\A u \in Users, o \in OrderIds :
          (Visible(u, o) /\ orders[o].status \in {"shipped", "delivered"})
          => /\ CancelOrderResponse(u, o) = HTTP_400_BAD_REQUEST
             /\ CancelOrder(u, o) => UNCHANGED <<orders, products>>]_vars

\* a shipped order whose owner's cancel is answered with 400
C9_Witness ==
    \E o \in OrderIds :
        /\ orders[o].live /\ orders[o].status = "shipped"
        /\ CancelOrderResponse(orders[o].user, o) = HTTP_400_BAD_REQUEST

\* C10: every order starts as pending, and an order's status changes only
\* from pending, to processing, shipped, delivered or cancelled.
C10_StatusOnlyLeavesPending ==
    [][/\ \A o \in OrderIds :
             (orders'[o].live /\ orders'[o].status # orders[o].status)
             => /\ orders[o].status = "pending"
                /\ orders'[o].status \in {"processing", "shipped", "delivered", "cancelled"}
       /\ \A o \in 1..Len(orders') : o \notin OrderIds => orders'[o].status = "pending"]_vars

\* C11: a request to add a product to the cart (POST /api/cart/ or
\* add_to_cart) or to set a cart item's quantity, with a quantity above the
\* product's stock, is answered with an error and leaves every cart as it was.
C11_OverStockRejected ==
    [][vars' # vars =>
          \A u \in Users, p \in ProductIds, q \in QtyInputs :
             q > products[p].stock =>
                /\ CartCreateResponse(p, q) = HTTP_400_BAD_REQUEST
                /\ AddToCartResponse(p, q) \in {HTTP_400_BAD_REQUEST, HTTP_404_NOT_FOUND}
                /\ \A i \in 1..Len(cart[u]) :
                      cart[u][i].product = p =>
                         UpdateItemResponse(u, i, q) = HTTP_400_BAD_REQUEST
                /\ cart' # cart =>
                      /\ ~CartCreate(u, p, q)
                      /\ ~AddToCart(u, p, q)
                      /\ \A i \in 1..Len(cart[u]) :
                            cart[u][i].product = p => ~UpdateItem(u, i, q)]_vars

\* an active product of stock 1 lies in a user's cart, and the three requests
\* for two units of it are refused
C11_Witness ==
    \E u \in Users, p \in ProductIds :
        /\ products[p].is_active /\ products[p].stock = 1
        /\ FindItem(cart[u], p) # 0
        /\ CartCreateResponse(p, 2) = HTTP_400_BAD_REQUEST
        /\ AddToCartResponse(p, 2) = HTTP_400_BAD_REQUEST
        /\ UpdateItemResponse(u, FindItem(cart[u], p), 2) = HTTP_400_BAD_REQUEST

\* C12: an order is a frozen snapshot: as long as the order exists, no step
\* (a change of a product's price, a status update, a cancellation, an update
\* of the order) changes its total_price or the product, price and quantity
\* of its order items.
C12_OrderFrozen ==
    [][\A o \in OrderIds :
          (orders[o].live /\ orders'[o].live) =>
             /\ orders'[o].total_price = orders[o].total_price
             /\ orders'[o].items = orders[o].items]_vars

\* a cancelled order holds an item whose price is no longer the product's
C12_Witness ==
    \E o \in OrderIds :
        /\ orders[o].live /\ orders[o].status = "cancelled"
        /\ \E i \in 1..Len(orders[o].items) :
              /\ orders[o].items[i].price # products[orders[o].items[i].product].price
              /\ orders[o].total_price >= orders[o].items[i].quantity * orders[o].items[i].price

\* C13: placing an order when the user's cart has no items is answered with
\* a validation error (400); a placement that is not answered with 201
\* writes nothing.
C13_EmptyCartValidationError ==
    \A u \in Users, pm \in PaymentInputs :
        cart[u] = <<>> => PlaceOrderResponse(u, pm) = HTTP_400_BAD_REQUEST

\* C14: a placement whose payment method is not one of the four choices is
\* refused, so every order that exists has a payment_method among them.
C14_PaymentMethodAmongChoices ==
    \A o \in OrderIds :
        orders[o].live => orders[o].payment_method \in PAYMENT_METHOD_CHOICES

C16_CartStructure ==
    [][cart' # cart =>
          /\ \A u \in Users :
                /\ cart'[u] # <<>> => hasCart'[u]
                /\ \A i, j \in 1..Len(cart'[u]) :
                      i # j => cart'[u][i].product # cart'[u][j].product
                /\ \A i \in 1..Len(cart'[u]) : cart'[u][i].quantity >= 1
          /\ \A u \in Users, p \in ProductIds, q \in QtyInputs :
                (FindItem(cart[u], p) # 0 /\ (CartCreate(u, p, q) \/ AddToCart(u, p, q)))
                => /\ Len(cart'[u]) = Len(cart[u])
                   /\ QuantityOf(cart'[u], p) = QuantityOf(cart[u], p) + q]_vars

\* a cart of two items, one of them of two units of a product whose stock
\* is 1
C16_Witness ==
    \E u \in Users :
        /\ Len(cart[u]) = 2
        /\ \E i \in 1..2 :
              cart[u][i].quantity = 2 /\ products[cart[u][i].product].stock = 1

\* the quantity of product p in the items of the orders that are not cancelled
RECURSIVE SoldQuantity(_, _)
SoldQuantity(p, o) ==
    IF o = 0 THEN 0
    ELSE (IF orders[o].live /\ orders[o].status # "cancelled"
          THEN QuantityOf(orders[o].items, p) ELSE 0)
         + SoldQuantity(p, o - 1)

\* C17: with no seller editing stock, in every state that cart requests,
\* placements, cancellations and status updates reach, each product's stock
\* plus the quantity of it in the orders that are not cancelled is its
\* initial stock.
C17_StockConserved ==
    \A p \in ProductIds :
        products[p].stock + SoldQuantity(p, Len(orders)) = MaxStock

\* C18: cancel on an order that is already cancelled leaves every product's
\* stock and the order's status as they were.
C18_CancelRestoresOnce ==
    [][\A u \in Users, o \in OrderIds :
          (/\ orders[o].live /\ orders[o].status = "cancelled"
           /\ CancelOrder(u, o))
          => /\ StockOf(products') = StockOf(products)
             /\ orders'[o].status = orders[o].status]_vars

\* C19: after every add to the cart (POST /api/cart/ or add_to_cart) and
\* every update of a cart item that changes the cart, the quantity of that
\* item, earlier adds included, is at most the product's stock.
C19_CartQuantityWithinStock ==
    [][cart' # cart =>
          \A u \in Users, q \in QtyInputs :
             /\ \A p \in ProductIds :
                   (CartCreate(u, p, q) \/ AddToCart(u, p, q))
                   => QuantityOf(cart'[u], p) <= products[p].stock
             /\ \A i \in 1..Len(cart[u]) :
                   UpdateItem(u, i, q)
                   => cart'[u][i].quantity <= products[cart[u][i].product].stock]_vars

\* the quantity of product p in the items of all orders
OrderedQuantity(p) ==
    SeqSum([o \in 1..Len(orders) |-> QuantityOf(orders[o].items, p)])

\* C20: when the placements of two users for a product whose stock covers
\* both quantities have run concurrently and are complete, the product's stock
\* is the stock they started from minus both quantities.
C20_NoLostStockUpdate ==
    (\A u \in Users : proc[u].pc = "done") =>
        \A p \in ProductIds :
            (/\ \A o \in OrderIds : QuantityOf(orders[o].items, p) >= 1
             /\ placed.stock[p] >= OrderedQuantity(p))
            => products[p].stock = placed.stock[p] - OrderedQuantity(p)

\* the sum of quantity times price over the order items `oitems`
ItemsTotal(oitems) ==
    SeqSum([i \in 1..Len(oitems) |-> oitems[i].quantity * oitems[i].price])

\* C21: when a placement completes, with cart adds of the same user and price
\* changes of the seller handled between its steps, the order's total_price
\* is the sum of quantity times price over its own items, and every cart item
\* the placement removes has an order item of the same product and quantity.
C21_PlacementConsistentInterleaved ==
    [][\A u \in Users :
          PlaceClearCart(u) =>
             LET order == orders'[proc[u].order] IN
             /\ order.total_price = ItemsTotal(order.items)
             /\ \A i \in 1..Len(cart[u]) :
                   \E j \in 1..Len(order.items) :
                      /\ order.items[j].product = cart[u][i].product
                      /\ order.items[j].quantity = cart[u][i].quantity]_vars

====
